---------------------------- MODULE Spec2Model ----------------------------
(***************************************************************************)
(* The generate-verify-repair loop of src/main.py: generate_proof_chain    *)
(* asks the text-generation service for a plan, execute_steps runs the     *)
(* plan's code fragments in one shared session, and the two endpoints      *)
(* (solve_endpoint, update_endpoint) wrap the loop.                        *)
(*                                                                         *)
(* Text is modelled as a sequence of tokens; " " and "\n" are the          *)
(* whitespace tokens, so that str.strip() is a computation.                *)
(***************************************************************************)
EXTENDS Integers, Sequences, FiniteSets, TLC

\* ------------------------------------------------------------------ bounds

\* longest plan built freely from the core step descriptors
MaxPlan == 2
\* longest current_steps chain of an UpdateRequest
MaxChain == 2
\* largest edit_index of an UpdateRequest
MaxEdit == 3
\* largest start_index / max_retries of a direct generate_proof_chain call
MaxStart == 2
MaxRetriesArg == 2
\* most requests waiting for the event loop at one time
MaxQueued == 1

\* default of the max_retries parameter
DefaultMaxRetries == 3
\* default of the start_index parameter
DefaultStartIndex == 1

\* ------------------------------------------------------- texts and fragments

Whitespace == {" ", "\n", "\t"}

RECURSIVE lstrip(_)
lstrip(s) ==
    IF s # <<>> /\ Head(s) \in Whitespace THEN lstrip(Tail(s)) ELSE s

RECURSIVE rstrip(_)
rstrip(s) ==
    IF s # <<>> /\ s[Len(s)] \in Whitespace
    THEN rstrip(SubSeq(s, 1, Len(s) - 1))
    ELSE s

\* str.strip()
strip(s) == rstrip(lstrip(s))

NoOutput == <<"\\text{No Output}">>

\* mutant: the empty output is left as it is
NormalizeOutputNoSentinel(captured) == strip(captured)

\* output = buffer.getvalue().strip(); if not output: output = "\\text{No Output}"
NormalizeOutput(captured) ==
    IF strip(captured) = <<>> THEN NoOutput ELSE strip(captured)

\* The code fragments the generator may emit.
CodeBind  == "x = sympy.Symbol('x')"
CodeUse   == "print(sympy.latex(x**2))"
CodePi    == "print(sympy.latex(sympy.pi))"
CodeBlank == "print(' ')"
CodeDiv   == "print(1/0)"
CodeExit  == "raise SystemExit"
CodeBindY == "y = sympy.Symbol('y')"
CodeUseY  == "print(sympy.latex(y))"
CodeSetFlag == "sympy.flag = 1"
CodeUseFlag == "print(sympy.flag)"

\* Attributes a fragment may set on the sympy module. The module is one
\* object for the whole process: every session's "sympy" and "sp" name it.
ModuleNames == {"sympy.flag"}

\* names a fragment reads from the session
Refs(code) ==
    CASE code = CodeUse -> {"sympy", "x"}
      [] code = CodeUseY -> {"sympy", "y"}
      [] code = CodeSetFlag -> {"sympy"}
      [] code = CodeUseFlag -> {"sympy", "sympy.flag"}
      [] code = CodePi -> {"sympy"}
      [] code = CodeBind -> {"sympy"}
      [] code = CodeBindY -> {"sympy"}
      [] OTHER -> {}

\* names a fragment binds in the session
Binds(code) ==
    CASE code = CodeBind -> {"x"}
      [] code = CodeSetFlag -> {"sympy.flag"}
      [] code = CodeBindY -> {"y"}
      [] OTHER -> {}

\* what a fragment writes to stdout when it runs to its end
Prints(code) ==
    CASE code = CodeUse -> <<"x^{2}", "\n">>
      [] code = CodeUseY -> <<"y", "\n">>
      [] code = CodeUseFlag -> <<"1", "\n">>
      [] code = CodePi -> <<"\\pi", "\n">>
      [] code = CodeBlank -> <<" ", "\n">>
      [] OTHER -> <<>>

\* str(e) of the NameError or AttributeError for a missing name
MissingMsg(n) ==
    IF n \in ModuleNames
    THEN <<"module 'sympy' has no attribute '", n, "'">>
    ELSE <<"name '", n, "' is not defined">>

\* What running a fragment does, stdout going to buf; `session` holds the
\* names of the namespace and the attributes the sympy module has.
\* raised is "none", "Exception" (caught by `except Exception`) or
\* "BaseException" (SystemExit, which `except Exception` lets through).
RunFragment(code, session, buf) ==
    IF Refs(code) \ session # {}
    THEN [raised |-> "Exception",
          msg |-> MissingMsg(CHOOSE n \in Refs(code) \ session : TRUE),
          session |-> session, buffer |-> buf]
    ELSE IF code = CodeDiv
    THEN [raised |-> "Exception", msg |-> <<"division by zero">>,
          session |-> session, buffer |-> buf]
    ELSE IF code = CodeExit
    THEN [raised |-> "BaseException", msg |-> <<>>,
          session |-> session, buffer |-> buf]
    ELSE [raised |-> "none", msg |-> <<>>,
          session |-> session \cup Binds(code),
          buffer |-> buf \o Prints(code)]

\* session_globals = {"sympy": sympy, "sp": sympy}
NewSession == {"sympy", "sp"}

\* mutant: every fragment gets a namespace of its own
ExecFragmentFreshSession(code, session, buf) == RunFragment(code, NewSession, buf)

\* with redirect_stdout(buffer): exec(code, session_globals)
ExecFragment(code, session, buf) == RunFragment(code, session, buf)


\* ------------------------------------------------- the generator's responses

\* Step descriptors of a plan: `content`, `code`, optionally `status`; the
\* generator may add keys of its own (`index`) or leave a required key out.
StepBind == [content |-> "Let x be a symbol.", code |-> CodeBind]
StepUse == [content |-> "Square it.", code |-> CodeUse, status |-> "valid"]
StepPi == [content |-> "Recall pi.", code |-> CodePi, status |-> "normal", index |-> 7]
StepReject == [content |-> "This edit leaves the goal.", code |-> CodeBlank, status |-> "error"]
StepDraft == [content |-> "Sketch.", code |-> CodePi, status |-> "draft"]
StepDiv == [content |-> "Divide.", code |-> CodeDiv, status |-> "normal"]
StepExit == [content |-> "Stop.", code |-> CodeExit]
StepNoCode == [content |-> "No code here."]
StepNoContent == [code |-> CodePi]
StepUseY == [content |-> "Use the earlier y.", code |-> CodeUseY]
StepSetFlag == [content |-> "Configure.", code |-> CodeSetFlag]
StepUseFlag == [content |-> "Read the configuration.", code |-> CodeUseFlag]

CoreSteps == {StepBind, StepUse}

CorePlans == UNION {[1..n -> CoreSteps] : n \in 0..MaxPlan}

ExtraPlans ==
    { <<StepReject>>,
      <<StepPi, StepBind>>,
      <<StepDraft>>,
      <<StepBind, StepDiv, StepUse>>,
      <<StepExit>>,
      <<StepBind, StepExit, StepUse>>,
      <<StepNoCode>>,
      <<StepBind, StepNoCode>>,
      <<StepNoContent>>,
      <<StepPi, StepNoContent>>,
      <<StepUseY>>,
      <<StepSetFlag, StepDiv>>,
      <<StepUseFlag>> }

Plans == CorePlans \cup ExtraPlans

\* client.chat.completions.create raised
ServiceError == [kind |-> "service_error"]
\* response text that json.loads rejects
GarbageText == [kind |-> "text", json |-> FALSE]
\* response text that decodes to an object without `steps`
NoStepsText == [kind |-> "text", json |-> TRUE, obj |-> [answer |-> "42"]]
\* response text that decodes to {"steps": [...]}
PlanText(p) == [kind |-> "text", json |-> TRUE, obj |-> [steps |-> p]]

Responses ==
    {ServiceError, GarbageText, NoStepsText} \cup {PlanText(p) : p \in Plans}

\* --------------------------------------------------------- request inputs

Problem == "integrate x^2"
NewContent == "now square x"

\* a step of a chain returned earlier, as the client sends it back
PrevStep(j) ==
    [index |-> j, content |-> "Confirmed step.", code |-> CodeBindY,
     output |-> NoOutput, status |-> IF j = 1 THEN "normal" ELSE "valid"]

PrevChain(n) == [j \in 1..n |-> PrevStep(j)]

UpdateRequests ==
    { [current_steps |-> PrevChain(n), edit_index |-> e,
       new_content |-> NewContent, problem |-> Problem] :
         n \in 0..MaxChain, e \in 1..MaxEdit }

SolveRequests == { [problem |-> Problem] }

Min(a, b) == IF a < b THEN a ELSE b

\* ------------------------------------------------------------ the program

SystemTurn == [role |-> "system", content |-> [prompt |-> "SYSTEM_PROMPT"]]

\* solve_endpoint's conversation
SolveMessages(req) ==
    << SystemTurn,
       [role |-> "user", content |-> [prompt |-> "solve", problem |-> req.problem]] >>

\* req.current_steps[:req.edit_index-1]
PreviousSteps(req) ==
    SubSeq(req.current_steps, 1, Min(req.edit_index - 1, Len(req.current_steps)))

\* update_endpoint's conversation: UPDATE_PROMPT embeds the problem, the
\* number of established steps, their code, the edit index and the new content
UpdateMessages(req) ==
    << SystemTurn,
       [role |-> "user",
        content |-> [prompt |-> "update", problem |-> req.problem,
                     established |-> req.edit_index - 1,
                     prev_code_summary |->
                        [j \in 1..Len(PreviousSteps(req)) |-> PreviousSteps(req)[j].code],
                     edit_index |-> req.edit_index,
                     new_content |-> req.new_content]] >>

\* mutant: the edit index itself
UpdateStartIndexEdit(req) == req.edit_index

\* start_index=len(previous_steps)+1
UpdateStartIndex(req) == Len(PreviousSteps(req)) + 1

\* mutant: one pass too many
LoopContinuesInclusive(att, retries) == att <= retries

\* for attempt in range(max_retries)
LoopContinues(att, retries) == att < retries

\* buffer = io.StringIO()
NewBuffer == <<>>

\* step.get('status', 'normal')
StatusOf(step) == IF "status" \in DOMAIN step THEN step.status ELSE "normal"

\* the dict execute_steps appends for a verified step
VerifiedStep(step, output) ==
    [index |-> 0, content |-> step.content, code |-> step.code,
     output |-> output, status |-> StatusOf(step)]

\* mutant: enumerate counted from 1
ReindexFromOne(verified, start) ==
    [k \in 1..Len(verified) |-> [verified[k] EXCEPT !.index = start + k]]

\* for i, s in enumerate(verified_steps): s['index'] = start_index + i
Reindex(verified, start) ==
    [k \in 1..Len(verified) |-> [verified[k] EXCEPT !.index = start + (k - 1)]]

\* mutant: the diagnostic first
RepairTurnsSwapped(text, error_msg) ==
    << [role |-> "system", content |-> [prefix |-> "Code Error: ", error |-> error_msg]],
       [role |-> "assistant", content |-> text] >>

\* the two turns appended after a failed batch
RepairTurns(text, error_msg) ==
    << [role |-> "assistant", content |-> text],
       [role |-> "system", content |-> [prefix |-> "Code Error: ", error |-> error_msg]] >>

\* mutant: the error step is always numbered 1
ErrorStepIndexOne(start) ==
    [index |-> 1, content |-> "generation failed", code |-> "# Error",
     output |-> <<"\\text{Error}">>, status |-> "error"]

\* the step returned when every attempt failed
ErrorStep(start) ==
    [index |-> start, content |-> "generation failed", code |-> "# Error",
     output |-> <<"\\text{Error}">>, status |-> "error"]

\* mutant: the prefix is dropped
FinalStepsGeneratedOnly(prefix, generated) == generated

\* final_steps = [s.model_dump() for s in previous_steps] + new_steps
FinalSteps(prefix, generated) == prefix \o generated

VARIABLES
    pc,               \* "idle", "loop", "waiting", "exec", "done", "raised"
    kind,             \* "solve", "update", "call": how the loop was entered
    req,              \* the request body
    previous_steps,   \* update_endpoint: the untouched prefix
    start_index,      \* generate_proof_chain's parameters
    max_retries,
    history,          \* the conversation (the same list as `messages`)
    attempt,          \* iterations of the retry loop begun so far
    content,          \* response.choices[0].message.content
    steps_data,       \* execute_steps: its argument,
    i,                \*   its loop index,
    session_globals,  \*   the names bound in the session of the latest batch,
    buffer,           \*   what the current fragment's StringIO holds,
    verified_steps,   \*   and the list of verified steps the latest batch built
    new_steps,        \* what generate_proof_chain returned
    final_steps,      \* the chain the endpoint returns
    calls,            \* requests the text-generation service has received
    sent,             \* the messages of the latest request
    exec_log,         \* indices of the fragments exec() ran in this batch
    failures,         \* (response text, error) of each failed batch, in order
    sympy_module,     \* attributes set on the sympy module (process-wide)
    queued,           \* requests received and not yet started by the event loop
    own_module        \* the attributes this request's own fragments set

vars == << pc, kind, req, previous_steps, start_index, max_retries, history,
           attempt, content, steps_data, i, session_globals, buffer,
           verified_steps, new_steps, final_steps, calls, sent, exec_log,
           failures, sympy_module, queued, own_module >>

frame == << steps_data, i, session_globals, buffer, exec_log >>
params == << kind, req, previous_steps, start_index, max_retries >>
process == << sympy_module, queued, own_module >>

\* The points of a handler at which its task yields to the event loop:
\* generate_proof_chain holds no await, and the service call is the
\* synchronous client's.
SuspensionPoints == {}

NoText == [kind |-> "none"]

\* mutant: the list of the batch before is kept
StaleVerifiedSteps == verified_steps

\* verified_steps = []
NewVerifiedSteps == <<>>

\* the names the code of the kept prefix would bind, were it run
PrefixBinds ==
    UNION { Binds(previous_steps[j].code) : j \in 1..Len(previous_steps) }

\* mutant: the prefix's code is run to seed the session
BatchSessionWithPrefix == NewSession \cup PrefixBinds

\* execute_steps: the session a batch starts with
BatchSession == NewSession

\* history = messages
RequestHistory(messages) == messages

Init ==
    /\ pc = "idle"
    /\ kind = "none"
    /\ req = [problem |-> Problem]
    /\ previous_steps = <<>>
    /\ start_index = DefaultStartIndex
    /\ max_retries = DefaultMaxRetries
    /\ history = <<>>
    /\ attempt = 0
    /\ content = NoText
    /\ steps_data = <<>>
    /\ i = 0
    /\ session_globals = {}
    /\ buffer = <<>>
    /\ verified_steps = <<>>
    /\ new_steps = <<>>
    /\ final_steps = <<>>
    /\ calls = 0
    /\ sent = <<>>
    /\ exec_log = <<>>
    /\ failures = <<>>
    /\ sympy_module = {}
    /\ queued = 0
    /\ own_module = {}

\* entering generate_proof_chain(messages, start_index, max_retries)
Enter(k, r, prefix, messages, start, retries) ==
    /\ pc = "idle"
    /\ pc' = "loop"
    /\ kind' = k
    /\ req' = r
    /\ previous_steps' = prefix
    /\ start_index' = start
    /\ max_retries' = retries
    /\ history' = RequestHistory(messages)
    /\ attempt' = 0
    /\ UNCHANGED << content, frame, verified_steps, new_steps, final_steps,
                    calls, sent, failures, process >>

\* POST /api/solve
solve_endpoint ==
    \E r \in SolveRequests :
        Enter("solve", r, <<>>, SolveMessages(r), DefaultStartIndex, DefaultMaxRetries)

\* POST /api/update_step
update_endpoint ==
    \E r \in UpdateRequests :
        Enter("update", r, PreviousSteps(r), UpdateMessages(r),
              UpdateStartIndex(r), DefaultMaxRetries)

\* generate_proof_chain called with its parameters given explicitly
generate_proof_chain ==
    \E s \in 1..MaxStart, m \in 0..MaxRetriesArg :
        Enter("call", [problem |-> Problem], <<>>,
              SolveMessages([problem |-> Problem]), s, m)

\* the chain handed to the caller of the endpoint
Respond(generated) ==
    /\ new_steps' = generated
    /\ final_steps' = FinalSteps(previous_steps, generated)
    /\ pc' = "done"

\* mutant: the failed attempt is not counted
NextAttemptUncounted ==
    /\ attempt' = attempt
    /\ pc' = "loop"
    /\ steps_data' = <<>>
    /\ i' = 0
    /\ buffer' = <<>>

\* `continue`: the attempt is over, execute_steps (if it ran) has left
NextAttempt ==
    /\ attempt' = attempt + 1
    /\ pc' = "loop"
    /\ steps_data' = <<>>
    /\ i' = 0
    /\ buffer' = <<>>

\* lines 99-106: the loop goes on and the request is sent; the synchronous
\* client blocks the thread until the service has answered
Request ==
    /\ pc = "loop"
    /\ LoopContinues(attempt, max_retries)
    /\ pc' = "waiting"
    /\ calls' = calls + 1
    /\ sent' = history
    /\ UNCHANGED << params, history, attempt, content, frame, verified_steps,
                    new_steps, final_steps, failures, process >>

\* lines 101-112: the call raises or returns; decode, look for `steps`
Response ==
    /\ pc = "waiting"
    /\ \E r \in Responses :
        \/ /\ r = ServiceError
           /\ NextAttempt
           /\ UNCHANGED << content, session_globals, verified_steps, exec_log >>
        \/ /\ r.kind = "text"
           /\ ~r.json
           /\ content' = r
           /\ NextAttempt
           /\ UNCHANGED << session_globals, verified_steps, exec_log >>
        \/ /\ r.kind = "text"
           /\ r.json
           /\ "steps" \notin DOMAIN r.obj
           /\ content' = r
           /\ NextAttempt
           /\ UNCHANGED << session_globals, verified_steps, exec_log >>
        \/ /\ r.kind = "text"
           /\ r.json
           /\ "steps" \in DOMAIN r.obj
           /\ content' = r
           /\ pc' = "exec"
           /\ steps_data' = r.obj.steps
           /\ i' = 0
           /\ session_globals' = BatchSession
           /\ verified_steps' = NewVerifiedSteps
           /\ buffer' = NewBuffer
           /\ exec_log' = <<>>
           /\ UNCHANGED attempt
    /\ UNCHANGED << params, history, new_steps, final_steps, failures, calls,
                    sent, process >>

\* execute_steps returned (False, verified_steps, error): lines 119-121
BatchFailed(error_msg) ==
    /\ history' = history \o RepairTurns(content, error_msg)
    /\ failures' = Append(failures, [text |-> content, error |-> error_msg])
    /\ NextAttempt
    /\ UNCHANGED << session_globals, verified_steps, new_steps, final_steps >>

\* one iteration of execute_steps' loop: lines 74-92
ExecuteStep ==
    /\ pc = "exec"
    /\ i < Len(steps_data)
    /\ LET step == steps_data[i + 1] IN
        \/ /\ "code" \notin DOMAIN step
           \* KeyError before the try: caught by generate_proof_chain
           /\ NextAttempt
           /\ UNCHANGED << session_globals, verified_steps, history, failures,
                           new_steps, final_steps, exec_log, sympy_module,
                           own_module >>
        \/ /\ "code" \in DOMAIN step
           /\ LET r == ExecFragment(step.code, session_globals \cup sympy_module,
                                    NewBuffer) IN
               /\ exec_log' = Append(exec_log, i)
               /\ sympy_module' = r.session \cap ModuleNames
               /\ own_module' =
                    IF r.raised = "none"
                    THEN own_module \cup (Binds(step.code) \cap ModuleNames)
                    ELSE own_module
               /\ \/ /\ r.raised = "BaseException"
                     /\ pc' = "raised"
                     /\ UNCHANGED << attempt, steps_data, i, session_globals,
                                     buffer, verified_steps, history, failures,
                                     new_steps, final_steps >>
                  \/ /\ r.raised = "Exception"
                     /\ BatchFailed(r.msg)
                  \/ /\ r.raised = "none"
                     /\ "content" \notin DOMAIN step
                     /\ BatchFailed(<<"'content'">>)
                  \/ /\ r.raised = "none"
                     /\ "content" \in DOMAIN step
                     /\ verified_steps' =
                          Append(verified_steps,
                                 VerifiedStep(step, NormalizeOutput(r.buffer)))
                     /\ session_globals' = r.session \ ModuleNames
                     /\ buffer' = r.buffer
                     /\ i' = i + 1
                     /\ UNCHANGED << pc, attempt, steps_data, history, failures,
                                     new_steps, final_steps >>
    /\ UNCHANGED << params, content, calls, sent, queued >>

\* execute_steps returned (True, verified_steps, None): lines 114-117
BatchVerified ==
    /\ pc = "exec"
    /\ i = Len(steps_data)
    /\ Respond(Reindex(verified_steps, start_index))
    /\ UNCHANGED << params, history, attempt, content, frame, verified_steps,
                    calls, sent, failures, process >>

\* the loop ran out of attempts: lines 126-132
Exhausted ==
    /\ pc = "loop"
    /\ ~LoopContinues(attempt, max_retries)
    /\ Respond(<<ErrorStep(start_index)>>)
    /\ UNCHANGED << params, history, attempt, content, frame, verified_steps,
                    calls, sent, failures, process >>

Next ==
    \/ solve_endpoint
    \/ update_endpoint
    \/ generate_proof_chain
    \/ Request
    \/ Response
    \/ ExecuteStep
    \/ BatchVerified
    \/ Exhausted

\* one request, from its arrival to its return
Spec == Init /\ [][Next]_vars

\* another request reaches the server while the event loop is busy
Arrive ==
    /\ pc \in {"loop", "waiting", "exec", "done"}
    /\ queued < MaxQueued
    /\ queued' = queued + 1
    /\ UNCHANGED << pc, params, history, attempt, content, frame,
                    verified_steps, new_steps, final_steps, calls, sent,
                    failures, sympy_module, own_module >>

\* the event loop starts the next waiting request: when the running handler
\* has returned, or at a point where its task is suspended (there is none,
\* so no suspended handler's locals have to be kept aside). The locals of
\* the handler that returned are gone; what the process holds stays.
Dispatch ==
    /\ pc \in {"done"} \cup SuspensionPoints
    /\ queued > 0
    /\ queued' = queued - 1
    /\ pc' = "idle"
    /\ kind' = "none"
    /\ req' = [problem |-> Problem]
    /\ previous_steps' = <<>>
    /\ start_index' = DefaultStartIndex
    /\ max_retries' = DefaultMaxRetries
    /\ history' = <<>>
    /\ attempt' = 0
    /\ content' = NoText
    /\ steps_data' = <<>>
    /\ i' = 0
    /\ session_globals' = {}
    /\ buffer' = <<>>
    /\ exec_log' = <<>>
    /\ verified_steps' = <<>>
    /\ new_steps' = <<>>
    /\ final_steps' = <<>>
    /\ calls' = 0
    /\ sent' = <<>>
    /\ failures' = <<>>
    /\ own_module' = {}
    /\ UNCHANGED sympy_module

NextServer == Next \/ Arrive \/ Dispatch

\* the server: requests arrive at any time and are handled on one event loop
SpecServer == Init /\ [][NextServer]_vars

\* ------------------------------------------------------------- properties

\* generate_proof_chain returned from inside the loop (line 117): every
\* failure adds one to `attempt`, a success leaves it below max_retries
Succeeded == pc = "done" /\ attempt < max_retries

\* generate_proof_chain returned after the loop (line 126)
RanOut == pc = "done" /\ attempt >= max_retries

\* the plan the latest response decoded to, when it decoded to one
HasPlan == content.kind = "text" /\ content.json /\ "steps" \in DOMAIN content.obj
Plan == content.obj.steps

\* the conversation the endpoint built
InitialMessages ==
    IF kind = "update" THEN UpdateMessages(req) ELSE SolveMessages(req)

StatusDomain == {"normal", "valid", "error"}

C2_ContiguousIndices ==
    Succeeded =>
        \A k \in 1..Len(new_steps) : new_steps[k].index = start_index + (k - 1)

\* C2 witness: a success after a failed attempt, two steps, start index 3,
\* from a plan whose first descriptor carried an `index` of its own
C2_Witness ==
    /\ Succeeded
    /\ attempt >= 1
    /\ start_index = 3
    /\ Len(new_steps) = 2
    /\ "index" \in DOMAIN Plan[1]
    /\ Plan[1].index # new_steps[1].index

\* C3 as stated: every step of the returned chain at a (1-based) position
\* below edit_index equals the step at that position of current_steps.
C3_PrefixBelowEditIndex ==
    (pc = "done" /\ kind = "update") =>
        \A p \in 1..Len(final_steps) :
            p < req.edit_index =>
                /\ p <= Len(req.current_steps)
                /\ final_steps[p] = req.current_steps[p]

\* C3 amended: the returned chain begins with the first
\* min(edit_index - 1, len(current_steps)) steps of current_steps, unchanged,
\* and no batch ever runs in a session holding a name bound by their code.
C3_PrefixUntouched ==
    kind = "update" =>
        /\ "y" \notin session_globals
        /\ pc = "done" =>
            /\ Len(final_steps) >= Min(req.edit_index - 1, Len(req.current_steps))
            /\ \A p \in 1..Min(req.edit_index - 1, Len(req.current_steps)) :
                  final_steps[p] = req.current_steps[p]

\* C3 witness: an edit at index 3 of a two-step chain, answered by a
\* rejection step
C3_Witness ==
    /\ pc = "done"
    /\ kind = "update"
    /\ req.edit_index = 3
    /\ Len(req.current_steps) = 2
    /\ Len(final_steps) = 3
    /\ final_steps[3].status = "error"
    /\ Succeeded

\* C4 as stated: the loop of an update runs with start_index = edit_index.
C4_StartIsEditIndex ==
    (kind = "update" /\ pc # "idle") => start_index = req.edit_index

\* C4 amended: the loop of an update runs with start_index =
\* len(previous_steps) + 1 = min(edit_index, len(current_steps) + 1), which
\* is edit_index whenever edit_index <= len(current_steps) + 1; the generated
\* suffix (or the terminal error step) is indexed contiguously from it.
C4_StartIsPrefixLengthPlusOne ==
    (kind = "update" /\ pc # "idle") =>
        /\ start_index = Min(req.edit_index, Len(req.current_steps) + 1)
        /\ (req.edit_index <= Len(req.current_steps) + 1) => start_index = req.edit_index
        /\ pc = "done" =>
            /\ new_steps # <<>> => new_steps[1].index = start_index
            /\ \A k \in 1..Len(new_steps) : new_steps[k].index = start_index + (k - 1)

\* C4 witness: an edit past the end of the chain (index 3, one step), with a
\* two-step suffix
C4_Witness ==
    /\ pc = "done"
    /\ kind = "update"
    /\ req.edit_index = 3
    /\ Len(req.current_steps) = 1
    /\ Len(new_steps) = 2
    /\ start_index = 2

\* C5 as stated: no fault raised inside the loop leaves generate_proof_chain.
C5_NoFaultPropagates == pc # "raised"

\* C6: a successful chain holds, step for step, the content, code and status
\* of the plan of the attempt that succeeded and the output of running that
\* plan's fragments, and nothing of an earlier attempt.
C6_OnlySuccessfulAttempt ==
    Succeeded =>
        /\ HasPlan
        /\ Len(new_steps) = Len(Plan)
        /\ \A k \in 1..Len(Plan) :
              /\ new_steps[k].content = Plan[k].content
              /\ new_steps[k].code = Plan[k].code
              /\ new_steps[k].status = StatusOf(Plan[k])
              /\ new_steps[k].output \in {NoOutput, strip(Prints(Plan[k].code))}

\* C6 witness: the first batch verified a step and then raised, a later
\* attempt succeeded with another plan
C6_Witness ==
    /\ Succeeded
    /\ failures # <<>>
    /\ Len(failures[1].text.obj.steps) = 3
    /\ new_steps # <<>>
    /\ content # failures[1].text

\* C7 as stated: every status of a returned chain is normal, valid or error.
C7_StatusDomain ==
    pc = "done" => \A k \in 1..Len(new_steps) : new_steps[k].status \in StatusDomain

\* the names the fragments before position k (1-based) of plan p bind
BoundBefore(p, k) ==
    NewSession \cup UNION { Binds(p[j].code) : j \in 1..(k - 1) }

\* C8: the fragments of a batch are executed in plan order, one after the
\* other; a fragment runs only when all before it were verified; a fragment
\* whose names are all bound by earlier fragments of the batch is verified;
\* a fragment that names a symbol the batch never bound is the last one run.
C8_OrderedFailFast ==
    HasPlan =>
        /\ \A k \in 1..Len(exec_log) : exec_log[k] = k - 1
        /\ Len(exec_log) <= Len(Plan)
        /\ Len(verified_steps) <= Len(exec_log)
        /\ Len(exec_log) <= Len(verified_steps) + 1
        /\ pc = "exec" => (Len(exec_log) = i /\ Len(verified_steps) = i)
        /\ \A k \in 1..Len(verified_steps) : verified_steps[k].code = Plan[k].code
        /\ \A k \in 1..Len(exec_log) :
              /\ "code" \in DOMAIN Plan[k]
              /\ ((Refs(Plan[k].code) \ ModuleNames) \ BoundBefore(Plan, k) # {}) =>
                    (k = Len(exec_log) /\ k > Len(verified_steps) /\ pc # "exec")
              /\ ( /\ Refs(Plan[k].code) \subseteq BoundBefore(Plan, k)
                   /\ Plan[k].code \notin {CodeDiv, CodeExit}
                   /\ "content" \in DOMAIN Plan[k] ) => k <= Len(verified_steps)

\* C8 witness: a three-fragment batch halted at its second fragment
C8_Witness ==
    /\ HasPlan
    /\ pc = "loop"
    /\ Len(Plan) = 3
    /\ exec_log = <<0, 1>>
    /\ Len(verified_steps) = 1
    /\ Len(failures) = attempt

\* C9: every output of a successful chain is non-empty and stripped, it is
\* the sentinel exactly when the step's own fragment printed only
\* whitespace, and otherwise it is what that fragment alone printed.
C9_OutputNonEmpty ==
    Succeeded =>
        \A k \in 1..Len(new_steps) :
            LET out == new_steps[k].output
                printed == Prints(new_steps[k].code) IN
            /\ out # <<>>
            /\ out[1] \notin Whitespace
            /\ out[Len(out)] \notin Whitespace
            /\ (\A t \in 1..Len(printed) : printed[t] \in Whitespace) <=> out = NoOutput
            /\ out # NoOutput =>
                  \E a \in 0..Len(printed), b \in 0..Len(printed) :
                      /\ printed = SubSeq(printed, 1, a) \o out
                                     \o SubSeq(printed, Len(printed) - b + 1, Len(printed))
                      /\ a + Len(out) + b = Len(printed)

\* C9 witness: a chain whose first fragment printed and whose second printed
\* nothing
C9_Witness ==
    /\ Succeeded
    /\ Len(new_steps) = 2
    /\ new_steps[1].output = <<"\\pi">>
    /\ new_steps[2].output = NoOutput

C11_SilentFailure ==
    [][ /\ (pc = "waiting" /\ pc' = "loop") =>
              /\ history = sent
              /\ history' = history
              /\ failures' = failures
              /\ attempt' = attempt + 1
        /\ (pc = "loop" /\ pc' = "waiting") => sent' = history ]_vars

\* the third request is in flight after an undecodable response, and it
\* sends the conversation the endpoint built
C11_Witness ==
    /\ pc = "waiting"
    /\ calls = 3
    /\ attempt = 2
    /\ content = GarbageText
    /\ failures = <<>>
    /\ sent = InitialMessages

\* C12 as stated: when the batch of the latest plan stopped at a descriptor
\* that lacks `content` or `code`, the history ends with the diagnostic pair
\* for that response (the response text, then the error description).
C12_MissingFieldDiagnosed ==
    ( /\ pc = "loop"
      /\ HasPlan
      /\ Len(verified_steps) < Len(Plan)
      /\ {"content", "code"} \ DOMAIN Plan[Len(verified_steps) + 1] # {} )
    => /\ Len(history) >= Len(InitialMessages) + 2
       /\ history[Len(history) - 1] = [role |-> "assistant", content |-> content]
       /\ history[Len(history)].role = "system"

\* C13 as stated: whatever a fragment of a batch can observe is the seed of
\* the session and what the fragments before it in the same batch bound or
\* set; nothing made by an earlier batch, of this request or of another.
C13_SessionPrivate ==
    pc = "exec" =>
        session_globals \cup sympy_module = BoundBefore(steps_data, i + 1)

\* the history of the running request: the conversation its endpoint built,
\* then one pair of turns per failed batch of this request
OwnTurnsOnly ==
    kind # "none" =>
        /\ Len(history) = Len(InitialMessages) + 2 * Len(failures)
        /\ SubSeq(history, 1, Len(InitialMessages)) = InitialMessages
        /\ \A k \in 1..Len(failures) :
              /\ history[Len(InitialMessages) + 2 * k - 1].content = failures[k].text
              /\ history[Len(InitialMessages) + 2 * k].content.error = failures[k].error

\* the captured output of a verified step is what its own fragment printed
OwnOutputOnly ==
    \A k \in 1..Len(verified_steps) :
        verified_steps[k].output = NormalizeOutput(Prints(verified_steps[k].code))

\* the fragment about to run ends as it would had the request been the only
\* one the process ever handled (own_module is what the sympy module then holds)
SameAsAlone ==
    (pc = "exec" /\ i < Len(steps_data) /\ "code" \in DOMAIN steps_data[i + 1]) =>
        ExecFragment(steps_data[i + 1].code, session_globals \cup sympy_module,
                     NewBuffer).raised
        = ExecFragment(steps_data[i + 1].code, session_globals \cup own_module,
                       NewBuffer).raised

\* C14 as stated: with requests arriving while others are handled, a request's
\* history holds only its own turns, a step's output only what its fragment
\* printed, and every fragment ends as in a run of the request alone, so the
\* chain returned is the one the request alone would return.
C14_RequestIsolation ==
    /\ OwnTurnsOnly
    /\ OwnOutputOnly
    /\ SameAsAlone

\* C15 as stated: with a request pending, the event loop can start it while
\* the running handler waits for the service's response, and at no other
\* point of the retry loop.
C15_SuspendsAtServiceCall ==
    (queued > 0 /\ pc \in {"loop", "waiting", "exec"}) =>
        (ENABLED Dispatch <=> pc = "waiting")

\* C16 as stated: a request never needs more than max_retries calls of the
\* service, and a request that can take no further step has returned a
\* chain: the verified chain of a successful attempt, or the error step.
C16_ReachesTerminalState ==
    /\ calls <= max_retries
    /\ (pc # "idle" /\ ~ENABLED Next) =>
          /\ pc = "done"
          /\ \/ Succeeded
             \/ new_steps = <<ErrorStep(start_index)>>

\* C17 as stated: a returned chain has at least one step, so the chain an
\* update returns is longer than the prefix it kept.
C17_ChainNonEmpty ==
    pc = "done" =>
        /\ Len(new_steps) >= 1
        /\ kind = "update" => Len(final_steps) > Len(previous_steps)

\* C18: the chain an update returns (the kept prefix, then the generated
\* steps or the error step) numbers its steps by position: 1..m without gap
\* or duplicate, also when edit_index is beyond the end of current_steps.
C18_WholeChainContiguous ==
    (pc = "done" /\ kind = "update") =>
        \A p \in 1..Len(final_steps) : final_steps[p].index = p

\* C18 witness: edit_index 3 on a chain of one step, every attempt failed:
\* the step kept and the error step, numbered 1 and 2
C18_Witness ==
    /\ RanOut
    /\ kind = "update"
    /\ req.edit_index = 3
    /\ Len(req.current_steps) = 1
    /\ max_retries > 0
    /\ Len(final_steps) = 2
    /\ final_steps[1] = req.current_steps[1]
    /\ final_steps[2].status = "error"
    /\ final_steps[2].index = 2

\* C19: in an update the session of a batch holds no name bound by the code
\* of the kept prefix; a batch that stopped at a fragment referring to such a
\* name (not bound earlier in the batch) is a recorded failure whose error
\* says the name is not defined; and when the attempts run out the chain is
\* the prefix followed by the error step.
C19_PrefixNotInSession ==
    kind = "update" =>
        /\ pc = "exec" =>
              session_globals \cap (PrefixBinds \ BoundBefore(steps_data, i + 1)) = {}
        /\ ( /\ pc = "loop"
             /\ HasPlan
             /\ Len(verified_steps) < Len(Plan)
             /\ "code" \in DOMAIN Plan[Len(verified_steps) + 1]
             /\ Refs(Plan[Len(verified_steps) + 1].code)
                  \cap (PrefixBinds \ BoundBefore(Plan, Len(verified_steps) + 1)) # {} )
           => /\ failures # <<>>
              /\ failures[Len(failures)].text = content
              /\ \E n \in PrefixBinds :
                    failures[Len(failures)].error = MissingMsg(n)
        /\ RanOut =>
              final_steps = previous_steps \o <<ErrorStep(Len(previous_steps) + 1)>>

\* C19 witness: an update that kept one step (binding y); each of the three
\* plans printed y, each batch failed on it, the error step follows the prefix
C19_Witness ==
    /\ RanOut
    /\ kind = "update"
    /\ Len(previous_steps) = 1
    /\ PrefixBinds = {"y"}
    /\ Len(failures) = 3
    /\ \A k \in 1..3 :
          /\ failures[k].text = PlanText(<<StepUseY>>)
          /\ failures[k].error = MissingMsg("y")
    /\ final_steps = <<previous_steps[1], ErrorStep(2)>>

=============================================================================
